---- MODULE Spec2Model ----
(***************************************************************************)
(* LLMProvider of react-webllm (src/src/provider.tsx).                     *)
(*                                                                         *)
(* The provider is a React function component.  `state` holds its         *)
(* useState cells with every queued setState applied in order; `rendered`  *)
(* holds the cells the callbacks depend on (initialized, engine,           *)
(* supported) as the last render saw them: what initialize, generate,      *)
(* resetChat and the effect of that render captured.  Render brings        *)
(* `rendered` up to date.  package.json admits react >=16.8: `batching`     *)
(* tells whether the set-state calls made after an await are rendered      *)
(* together (React 18 createRoot) or one by one (React 16 and 17, legacy   *)
(* roots).  Every `await` is a separate step, so asynchronous calls        *)
(* interleave at their suspension points.  The inference engine            *)
(* (@mlc-ai/web-llm) is the environment: it reports any progress values,   *)
(* and resolves or rejects each request.                                   *)
(*                                                                         *)
(* Numbers: progress is kept in tenths (10 is 1.0).  Texts are tuples of   *)
(* string pieces, so a template literal is the tuple of its parts.         *)
(***************************************************************************)
EXTENDS Integers, Sequences, FiniteSets, TLC

VARIABLES
    env,            \* the host: WebAssembly, navigator.gpu, canvas contexts
    autoInitialize, \* the provider's prop
    batching,       \* React batches the set-state calls made after an await
                    \* (React 18 createRoot); otherwise each renders at once
    state,          \* the useState cells, queued updates applied
    rendered,       \* the cells captured by the callbacks of the last render
    effectPending,  \* the useEffect is scheduled to run
    effs,           \* effect runs suspended at `await checkWebLLMSupport()`
    inits,          \* initialize() calls that have not returned yet
    gens,           \* generate() calls that have not returned yet
    resets,         \* resetChat() calls that have not returned yet
    last,           \* the call that returned in the latest step, if one did
    calls,          \* how many times consumers called initialize()
    creates,        \* how many times CreateMLCEngine was called
    sessions,       \* number of engines CreateMLCEngine has resolved with
    reported,       \* number of progress reports the engine has made
    rejectedOn,     \* the engine whose completion was rejected last
    progressLog,    \* the values given to setInitProgress since the latest
                    \* creation began, in order
    engineReports   \* the reports the engine made since then, in order

vars == <<env, autoInitialize, batching, state, rendered, effectPending, effs, inits,
          gens, resets, last, calls, creates, sessions, reported, rejectedOn,
          progressLog, engineReports>>

----------------------------------------------------------------------------
(* Bounds of the model *)

MaxInitCalls == 1      \* consumer calls of initialize()
MaxGenCalls == 2       \* generate() calls running at once
MaxResetCalls == 1     \* resetChat() calls running at once
MaxReports == 2        \* progress reports of the engine
MaxRequests == 1       \* generate(prompt, options) calls running at once

(* Program constants *)

NoEngine == 0          \* useState<MLCEngine | null>(null)
ProgressZero == 0      \* progress: 0
ProgressDone == 10     \* progress: 1

NoVendor == "null"

(* What the engine may do *)

ReportedProgress == {3, 9}
ReportedText == <<"Loading model">>
Vendors == {"nvidia"}
\* a rejection value: an Error with a message, or any other thrown value
Thrown == {[isError |-> TRUE, message |-> "OOM"],
           [isError |-> FALSE, message |-> "OOM"]}
\* what chat.completions.create settles with
Completions ==
    {[kind |-> "content", content |-> "hello", error |-> [isError |-> TRUE, message |-> ""]],
     [kind |-> "nullContent", content |-> "", error |-> [isError |-> TRUE, message |-> ""]],
     [kind |-> "noChoices", content |-> "", error |-> [isError |-> TRUE, message |-> ""]]}
    \cup {[kind |-> "rejected", content |-> "", error |-> e] : e \in Thrown}

----------------------------------------------------------------------------
(* Initial values of the useState cells *)

InitialProgress ==
    [progress |-> ProgressZero, text |-> <<"Not initialized">>, status |-> "not-started"]

InitialSystemInfo ==
    [supported |-> FALSE, webGPUAvailable |-> FALSE, webGLAvailable |-> FALSE,
     sharedArrayBufferAvailable |-> FALSE, gpuVendor |-> NoVendor]

InitialState ==
    [engine |-> NoEngine, initialized |-> FALSE, supported |-> FALSE,
     initProgress |-> InitialProgress, systemInfo |-> InitialSystemInfo]

\* the hosts: one per way of being supported or unsupported
Host(wasm, webgpu, webgl, sab, throws) ==
    [wasm |-> wasm, webgpu |-> webgpu, webgl |-> webgl, sab |-> sab, throws |-> throws]

Hosts ==
    {Host(TRUE, FALSE, TRUE, FALSE, FALSE),   \* supported (WebGL)
     Host(FALSE, TRUE, TRUE, TRUE, FALSE),    \* no WebAssembly
     Host(TRUE, FALSE, FALSE, TRUE, FALSE),   \* neither GPU interface
     Host(TRUE, TRUE, TRUE, TRUE, TRUE)}      \* probing throws

\* every combination of what the probe reads
AllHosts ==
    {Host(wasm, webgpu, webgl, sab, throws) :
        wasm \in BOOLEAN, webgpu \in BOOLEAN, webgl \in BOOLEAN,
        sab \in BOOLEAN, throws \in BOOLEAN}

----------------------------------------------------------------------------
(* checkWebLLMSupport *)

\* a probe that forgets the WebAssembly check
ProbeVerdictWithoutWasm(h) ==
    IF h.throws THEN FALSE ELSE h.webgl \/ h.webgpu

\* the value checkWebLLMSupport resolves with
ProbeVerdict(h) ==
    IF ~h.wasm THEN FALSE
    ELSE IF h.throws THEN FALSE
    ELSE h.webgl \/ h.webgpu

\* a probe that takes SharedArrayBuffer for a requirement
ProbeUpdateNeedsSharedBuffer(s, h) ==
    IF ~h.wasm \/ h.throws
    THEN [s EXCEPT !.supported = FALSE, !.systemInfo.supported = FALSE]
    ELSE [s EXCEPT !.supported = (h.webgl \/ h.webgpu) /\ h.sab,
                   !.systemInfo = [supported |-> (h.webgl \/ h.webgpu) /\ h.sab,
                                   webGPUAvailable |-> h.webgpu,
                                   webGLAvailable |-> h.webgl,
                                   sharedArrayBufferAvailable |-> h.sab,
                                   gpuVendor |-> NoVendor]]

\* a probe that fills in a vendor of its own
ProbeUpdateWithVendor(s, h) ==
    IF ~h.wasm \/ h.throws
    THEN [s EXCEPT !.supported = FALSE, !.systemInfo.supported = FALSE]
    ELSE [s EXCEPT !.supported = h.webgl \/ h.webgpu,
                   !.systemInfo = [supported |-> h.webgl \/ h.webgpu,
                                   webGPUAvailable |-> h.webgpu,
                                   webGLAvailable |-> h.webgl,
                                   sharedArrayBufferAvailable |-> h.sab,
                                   gpuVendor |-> "unknown"]]

\* the state updates checkWebLLMSupport queues
ProbeUpdate(s, h) ==
    IF ~h.wasm \/ h.throws
    THEN [s EXCEPT !.supported = FALSE, !.systemInfo.supported = FALSE]
    ELSE [s EXCEPT !.supported = h.webgl \/ h.webgpu,
                   !.systemInfo = [supported |-> h.webgl \/ h.webgpu,
                                   webGPUAvailable |-> h.webgpu,
                                   webGLAvailable |-> h.webgl,
                                   sharedArrayBufferAvailable |-> h.sab,
                                   gpuVendor |-> NoVendor]]

----------------------------------------------------------------------------
(* The values initialize gives to setInitProgress *)

UnsupportedProgress ==
    [progress |-> ProgressZero,
     text |-> <<"WebLLM is not supported in this browser">>,
     status |-> "error"]

InitializingProgress ==
    [progress |-> ProgressZero, text |-> <<"Initializing WebLLM...">>,
     status |-> "initializing"]

\* a callback that relays the text but not the progress
progressCallbackTextOnly(report) ==
    [progress |-> ProgressZero, text |-> report.text, status |-> "initializing"]

\* progressCallback(report)
progressCallback(report) ==
    [progress |-> report.progress, text |-> report.text, status |-> "initializing"]

SuccessProgress ==
    [progress |-> ProgressDone, text |-> <<"WebLLM initialized successfully">>,
     status |-> "success"]

\* reading .message of whatever was thrown
ErrorMessageUnchecked(error, fallback) == error.message

\* error instanceof Error ? error.message : fallback
ErrorMessage(error, fallback) ==
    IF error.isError THEN error.message ELSE fallback

FailedProgress(error) ==
    [progress |-> ProgressZero,
     text |-> <<"Failed to initialize WebLLM: ", ErrorMessage(error, "Unknown error")>>,
     status |-> "error"]

----------------------------------------------------------------------------
(* The closure a render creates: the deps of initialize, generate, resetChat *)

Closure(s) == [initialized |-> s.initialized, engine |-> s.engine,
               supported |-> s.supported]

\* the Ready check with the engine test inverted
AlreadyReadyInverted(cl) == cl.initialized /\ cl.engine = NoEngine

\* `if (initialized && engine) return true`
AlreadyReady(cl) == cl.initialized /\ cl.engine # NoEngine

\* `if (!supported)`: the probe is run by this call
NeedsProbe(cl) == ~cl.supported

\* the deps of the mount effect that can change: initialize's identity and supported
EffectDepsChanged(old, new) == old # new

NoThrown == [isError |-> TRUE, message |-> ""]

\* the record of one initialize() call; pc is where it is suspended, the other
\* fields remember what the call did
NewInit(src, cl) ==
    [src |-> src, cl |-> cl, pc |-> "start",
     isSupported |-> FALSE, probed |-> FALSE, ret |-> "none", creates |-> 0,
     session |-> NoEngine, storedAtCreate |-> FALSE, thrown |-> NoThrown,
     vendor |-> NoVendor, vendorFailed |-> FALSE]

\* What a step of a call sees and changes besides its own record: the cells,
\* and the two logs kept for the current creation.
World(s, log, eng) == [st |-> s, log |-> log, eng |-> eng]

Step(rec, w) == [rec |-> rec, st |-> w.st, log |-> w.log, eng |-> w.eng]

\* setInitProgress(p)
SetInitProgress(w, p) ==
    [w EXCEPT !.st.initProgress = p, !.log = Append(w.log, p)]

\* setInitProgress(initializing), then webllm.CreateMLCEngine(...) is called
StartCreate(r, w) ==
    Step([r EXCEPT !.pc = "creating", !.creates = r.creates + 1,
                   !.storedAtCreate = (w.st.engine # NoEngine)],
         SetInitProgress([w EXCEPT !.log = <<>>, !.eng = <<>>], InitializingProgress))

\* `setInitProgress(error); return false` of the unsupported branch
RejectUnsupported(r, w) ==
    Step([r EXCEPT !.pc = "done", !.ret = "false"],
         SetInitProgress(w, UnsupportedProgress))

\* the synchronous part of initialize(), up to its first await or its return
InitializeEnter(r, w) ==
    IF AlreadyReady(r.cl)
    THEN Step([r EXCEPT !.pc = "done", !.ret = "true"], w)
    ELSE IF NeedsProbe(r.cl)
    THEN Step([r EXCEPT !.pc = "probeAwait", !.probed = TRUE,
                        !.isSupported = ProbeVerdict(env)],
              [w EXCEPT !.st = ProbeUpdate(w.st, env)])
    ELSE StartCreate(r, w)

\* initialize() after `await checkWebLLMSupport()`
InitializeAfterProbe(r, w) ==
    IF ~r.isSupported THEN RejectUnsupported(r, w) ELSE StartCreate(r, w)

\* the engine calls initProgressCallback(report)
InitializeReport(r, w, report) ==
    Step(r, SetInitProgress([w EXCEPT !.eng = Append(w.eng, report)],
                            progressCallback(report)))

\* initialize() after `await webllm.CreateMLCEngine(...)` resolved with mlcEngine;
\* it then calls mlcEngine.getGPUVendor()
InitializeCreated(r, w, mlcEngine) ==
    Step([r EXCEPT !.pc = "vendorAwait", !.session = mlcEngine],
         SetInitProgress([w EXCEPT !.st.engine = mlcEngine, !.st.initialized = TRUE],
                         SuccessProgress))

\* a catch that drops the session: setEngine(null), setInitialized(false)
InitializeCatchClearsSession(r, w, error) ==
    Step([r EXCEPT !.pc = "done", !.ret = "false", !.thrown = error],
         SetInitProgress([w EXCEPT !.st.engine = NoEngine, !.st.initialized = FALSE],
                         FailedProgress(error)))

\* a catch that leaves the progress where the last report put it
InitializeCatchKeepsProgress(r, w, error) ==
    Step([r EXCEPT !.pc = "done", !.ret = "false", !.thrown = error],
         SetInitProgress(w, [FailedProgress(error) EXCEPT
                                !.progress = w.st.initProgress.progress]))

\* the outer catch of initialize(): CreateMLCEngine rejected with error
InitializeCatch(r, w, error) ==
    Step([r EXCEPT !.pc = "done", !.ret = "false", !.thrown = error],
         SetInitProgress(w, FailedProgress(error)))

\* `setSystemInfo(prev => ({...prev, gpuVendor: vendor})); return true`
InitializeVendor(r, w, vendor) ==
    Step([r EXCEPT !.pc = "done", !.ret = "true", !.vendor = vendor],
         [w EXCEPT !.st.systemInfo.gpuVendor = vendor])

\* the inner catch of initialize(): getGPUVendor failed; `return true`
InitializeVendorCatch(r, w) ==
    Step([r EXCEPT !.pc = "done", !.ret = "true", !.vendorFailed = TRUE], w)

----------------------------------------------------------------------------
(* generate *)

NoError == "undefined"

\* An optional value: undefined when the caller left it out, <<v>> when it is v.
undefined == <<>>

DefaultTemperature == 7     \* 0.7, in tenths

SystemMessage == [role |-> "system", content |-> "You are a helpful AI assistant."]

\* `options = {}`
NoOptions ==
    [temperature |-> undefined, max_tokens |-> undefined, top_p |-> undefined,
     top_k |-> undefined, repetition_penalty |-> undefined, stop |-> undefined]

\* the arguments consumers call generate() with (temperature and top_p in tenths)
Prompts == {"hi", ""}

Options ==
    {NoOptions,
     [NoOptions EXCEPT !.temperature = <<0>>],
     [NoOptions EXCEPT !.max_tokens = <<64>>, !.top_k = <<40>>],
     [temperature |-> <<10>>, max_tokens |-> <<64>>, top_p |-> <<9>>,
      top_k |-> <<40>>, repetition_penalty |-> <<11>>, stop |-> <<<<"END">>>>]}

\* `options.temperature || 0.7`: a temperature of 0 is taken for a missing one
TemperatureFalsy(options) ==
    IF options.temperature \in {undefined, <<0>>}
    THEN <<DefaultTemperature>> ELSE options.temperature

\* `options.temperature ?? 0.7`
Temperature(options) ==
    IF options.temperature = undefined
    THEN <<DefaultTemperature>> ELSE options.temperature

\* the argument of engine.chat.completions.create
ChatRequest(prompt, options) ==
    [messages |-> <<SystemMessage, [role |-> "user", content |-> prompt]>>,
     temperature |-> Temperature(options),
     max_tokens |-> options.max_tokens,
     top_p |-> options.top_p,
     stop |-> options.stop]

NoRequest ==
    [messages |-> <<>>, temperature |-> undefined, max_tokens |-> undefined,
     top_p |-> undefined, stop |-> undefined]

\* the guard of generate() with `&& initialized` for `|| !initialized`
NotInitializedConfused(cl) == cl.engine = NoEngine /\ cl.initialized

\* `if (!engine || !initialized)`
NotInitialized(cl) == cl.engine = NoEngine \/ ~cl.initialized

NotInitializedResponse ==
    [text |-> "", status |-> "error",
     error |-> "WebLLM not initialized. Call initialize() first."]

NoResponse == [text |-> "", status |-> "none", error |-> NoError]

\* a catch that hands the message back as the text
GenerateCatchAsText(error) ==
    [text |-> ErrorMessage(error, "Unknown error generating text"),
     status |-> "error", error |-> NoError]

\* the catch of generate()
GenerateCatch(error) ==
    [text |-> "", status |-> "error",
     error |-> ErrorMessage(error, "Unknown error generating text")]

\* reading response.choices[0].message.content throws a TypeError without choices
TypeError == [isError |-> TRUE, message |-> "TypeError"]

\* the value generate() returns once engine.chat.completions.create settled with c
GenerateResponse(c) ==
    IF c.kind = "rejected" THEN GenerateCatch(c.error)
    ELSE IF c.kind = "noChoices" THEN GenerateCatch(TypeError)
    ELSE IF c.kind = "nullContent" THEN [text |-> "", status |-> "success", error |-> NoError]
    ELSE [text |-> c.content, status |-> "success", error |-> NoError]

\* the synchronous part of generate(); session is the engine the request went to,
\* after is the engine whose completion was rejected before this call (if any)
GenerateEnter(cl, after, prompt, options) ==
    IF NotInitialized(cl)
    THEN [cl |-> cl, prompt |-> prompt, options |-> options,
          pc |-> "done", ret |-> "returned", forwarded |-> 0,
          request |-> NoRequest,
          session |-> NoEngine, after |-> after, settled |-> "none",
          resp |-> NotInitializedResponse]
    ELSE [cl |-> cl, prompt |-> prompt, options |-> options,
          pc |-> "completing", ret |-> "none", forwarded |-> 1,
          request |-> ChatRequest(prompt, options),
          session |-> cl.engine, after |-> after, settled |-> "none",
          resp |-> NoResponse]

\* generate() after `await engine.chat.completions.create(...)` settled
GenerateSettled(g, c) ==
    [g EXCEPT !.pc = "done", !.ret = "returned", !.settled = c.kind,
              !.resp = GenerateResponse(c)]

----------------------------------------------------------------------------
(* resetChat *)

\* resetChat() without its guard
ResetEnterUnguarded(cl) ==
    [cl |-> cl, pc |-> "resetting", ret |-> "none", session |-> cl.engine,
     resetCalls |-> 1, failed |-> FALSE]

\* the synchronous part of resetChat(): `if (!engine) return`
ResetEnter(cl) ==
    IF cl.engine = NoEngine
    THEN [cl |-> cl, pc |-> "done", ret |-> "returned", session |-> NoEngine,
          resetCalls |-> 0, failed |-> FALSE]
    ELSE [cl |-> cl, pc |-> "resetting", ret |-> "none", session |-> cl.engine,
          resetCalls |-> 1, failed |-> FALSE]

\* resetChat() without its try/catch
ResetSettledUncaught(r, ok) ==
    [r EXCEPT !.pc = "done", !.ret = IF ok THEN "returned" ELSE "threw",
              !.failed = ~ok]

\* resetChat() after `await engine.resetChat()` settled; the catch logs a failure
ResetSettled(r, ok) ==
    [r EXCEPT !.pc = "done", !.ret = "returned", !.failed = ~ok]

----------------------------------------------------------------------------
NoCall == [op |-> "none"]

\* the provider mounted in one of hosts
Mount(hosts) ==
    /\ env \in hosts
    /\ autoInitialize \in BOOLEAN
    /\ batching \in BOOLEAN
    /\ state = InitialState
    /\ rendered = Closure(InitialState)
    /\ effectPending = TRUE
    /\ effs = <<>>
    /\ inits = <<>>
    /\ gens = <<>>
    /\ resets = <<>>
    /\ last = NoCall
    /\ calls = 0
    /\ creates = 0
    /\ sessions = 0
    /\ reported = 0
    /\ rejectedOn = NoEngine
    /\ progressLog = <<>>
    /\ engineReports = <<>>

Init == Mount(Hosts)

Remove(seq, k) == [j \in 1..(Len(seq) - 1) |-> IF j < k THEN seq[j] ELSE seq[j + 1]]

\* A continuation of `await checkWebLLMSupport()` is a microtask: the promise is
\* settled when it is awaited, so the continuation runs before the next render
\* and before the engine's next event.
MicrotaskQueued == effs # <<>> \/ \E i \in DOMAIN inits : inits[i].pc = "probeAwait"

\* a call that has returned leaves the list of running calls
Returned(rec) == rec.pc = "done"

Now == World(state, progressLog, engineReports)

\* a step of initialize call i (Len(inits) + 1: a new call) with outcome e;
\* `last` keeps the returned call and the cells as they were before the step
InitializeStep(i, e) ==
    /\ state' = e.st
    /\ progressLog' = e.log
    /\ engineReports' = e.eng
    /\ creates' = creates + (IF i \in DOMAIN inits
                             THEN e.rec.creates - inits[i].creates
                             ELSE e.rec.creates)
    /\ IF Returned(e.rec)
       THEN /\ last' = [op |-> "initialize", rec |-> e.rec, before |-> state]
            /\ inits' = IF i \in DOMAIN inits THEN Remove(inits, i) ELSE inits
       ELSE /\ last' = NoCall
            /\ inits' = IF i \in DOMAIN inits THEN [inits EXCEPT ![i] = e.rec]
                        ELSE Append(inits, e.rec)

\* a consumer calls initialize() taken from the context value of the last render
CallInitialize ==
    /\ calls < MaxInitCalls
    /\ calls' = calls + 1
    /\ InitializeStep(Len(inits) + 1,
                      InitializeEnter(NewInit("consumer", rendered), Now))
    /\ UNCHANGED <<env, autoInitialize, batching, rendered, effectPending, effs, gens, resets,
                   sessions, reported, rejectedOn>>

\* initialize() resumes after `await checkWebLLMSupport()`
ResumeInitialize ==
    \E i \in DOMAIN inits :
        /\ inits[i].pc = "probeAwait"
        /\ InitializeStep(i, InitializeAfterProbe(inits[i], Now))
        /\ UNCHANGED <<env, autoInitialize, batching, rendered, effectPending, effs, gens, resets,
                       calls, sessions, reported, rejectedOn>>

\* the engine reports progress to a creation in flight
EngineProgress ==
    \E i \in DOMAIN inits, p \in ReportedProgress :
        /\ ~MicrotaskQueued
        /\ inits[i].pc = "creating"
        /\ reported < MaxReports
        /\ reported' = reported + 1
        /\ InitializeStep(i,
                          InitializeReport(inits[i], Now,
                                           [progress |-> p, text |-> ReportedText]))
        /\ UNCHANGED <<env, autoInitialize, batching, rendered, effectPending, effs, gens, resets,
                       calls, sessions, rejectedOn>>

\* The closures of the renders that happen between the set-state calls of a
\* resolved creation when React does not batch them (React 16 and 17, or a
\* legacy root): one after setEngine, one after setInitialized if it changes the
\* cell.  The effect of each of these renders runs before the next render.
UnbatchedClosures(s, mlcEngine) ==
    LET afterSetEngine == Closure([s EXCEPT !.engine = mlcEngine])
        afterSetInitialized ==
            Closure([s EXCEPT !.engine = mlcEngine, !.initialized = TRUE])
    IN  IF EffectDepsChanged(afterSetEngine, afterSetInitialized)
        THEN <<afterSetEngine, afterSetInitialized>>
        ELSE <<afterSetEngine>>

\* CreateMLCEngine resolves with a new engine.  Without batching every set-state
\* call of the continuation renders at once: a scheduled effect has run before,
\* the effects of the renders in between run (each probes and suspends), and the
\* last render leaves nothing to render.
CreateResolves ==
    \E i \in DOMAIN inits :
        /\ ~MicrotaskQueued
        /\ inits[i].pc = "creating"
        /\ sessions' = sessions + 1
        /\ IF batching
           THEN /\ InitializeStep(i, InitializeCreated(inits[i], Now, sessions + 1))
                /\ UNCHANGED <<rendered, effectPending, effs>>
           ELSE /\ ~effectPending
                /\ InitializeStep(i,
                                  InitializeCreated(inits[i],
                                                    [Now EXCEPT !.st = ProbeUpdate(state, env)],
                                                    sessions + 1))
                /\ effs' = UnbatchedClosures(state, sessions + 1)
                /\ rendered' = Closure(state')
                /\ effectPending' = FALSE
        /\ UNCHANGED <<env, autoInitialize, batching, gens, resets, calls, reported,
                       rejectedOn>>

\* CreateMLCEngine rejects
CreateRejects ==
    \E i \in DOMAIN inits, error \in Thrown :
        /\ ~MicrotaskQueued
        /\ inits[i].pc = "creating"
        /\ InitializeStep(i, InitializeCatch(inits[i], Now, error))
        /\ UNCHANGED <<env, autoInitialize, batching, rendered, effectPending, effs, gens, resets,
                       calls, sessions, reported, rejectedOn>>

\* getGPUVendor resolves
VendorResolves ==
    \E i \in DOMAIN inits, v \in Vendors :
        /\ ~MicrotaskQueued
        /\ inits[i].pc = "vendorAwait"
        /\ InitializeStep(i, InitializeVendor(inits[i], Now, v))
        /\ UNCHANGED <<env, autoInitialize, batching, rendered, effectPending, effs, gens, resets,
                       calls, sessions, reported, rejectedOn>>

\* getGPUVendor fails
VendorRejects ==
    \E i \in DOMAIN inits :
        /\ ~MicrotaskQueued
        /\ inits[i].pc = "vendorAwait"
        /\ InitializeStep(i, InitializeVendorCatch(inits[i], Now))
        /\ UNCHANGED <<env, autoInitialize, batching, rendered, effectPending, effs, gens, resets,
                       calls, sessions, reported, rejectedOn>>

\* React renders the provider with the queued updates; the effect is scheduled
\* when one of its deps changed.  Scheduled effects are flushed before a render.
\* (A render that changes no captured cell changes nothing here.)
Render ==
    /\ rendered # Closure(state)
    /\ ~effectPending
    /\ ~MicrotaskQueued
    /\ rendered' = Closure(state)
    /\ effectPending' = EffectDepsChanged(rendered, Closure(state))
    /\ last' = NoCall
    /\ UNCHANGED <<env, autoInitialize, batching, state, effs, inits, gens, resets, calls,
                   creates, sessions, reported, rejectedOn, progressLog,
                   engineReports>>

\* the effect runs: init() calls checkWebLLMSupport() and awaits it
RunEffect ==
    /\ effectPending
    /\ effectPending' = FALSE
    /\ state' = ProbeUpdate(state, env)
    /\ effs' = Append(effs, rendered)
    /\ last' = NoCall
    /\ UNCHANGED <<env, autoInitialize, batching, rendered, inits, gens, resets, calls,
                   creates, sessions, reported, rejectedOn, progressLog,
                   engineReports>>

\* `autoInitialize && supported` of the effect's closure
EffectInitializes(auto, cl) == auto /\ cl.supported

\* init() resumes after `await checkWebLLMSupport()`
ResumeEffect ==
    \E k \in DOMAIN effs :
        /\ effs' = Remove(effs, k)
        /\ IF EffectInitializes(autoInitialize, effs[k])
           THEN InitializeStep(Len(inits) + 1,
                               InitializeEnter(NewInit("effect", effs[k]), Now))
           ELSE /\ last' = NoCall
                /\ UNCHANGED <<inits, state, progressLog, engineReports, creates>>
        /\ UNCHANGED <<env, autoInitialize, batching, rendered, effectPending, gens, resets, calls,
                       sessions, reported, rejectedOn>>

\* a step of generate call j (Len(gens) + 1: a new call) to record g
GenerateStep(j, g) ==
    /\ rejectedOn' = IF g.settled = "rejected" THEN g.session ELSE rejectedOn
    /\ IF Returned(g)
       THEN /\ last' = [op |-> "generate", rec |-> g, before |-> state]
            /\ gens' = IF j \in DOMAIN gens THEN Remove(gens, j) ELSE gens
       ELSE /\ last' = NoCall
            /\ gens' = Append(gens, g)

\* a consumer calls generate("hi") taken from the context value of the last render
CallGenerate ==
    /\ Len(gens) < MaxGenCalls
    /\ GenerateStep(Len(gens) + 1, GenerateEnter(rendered, rejectedOn, "hi", NoOptions))
    /\ UNCHANGED <<env, autoInitialize, batching, state, rendered, effectPending, effs, inits,
                   resets, calls, creates, sessions, reported, progressLog,
                   engineReports>>

\* a consumer calls generate(prompt, options)
CallGenerateWith ==
    \E prompt \in Prompts, options \in Options :
        /\ Len(gens) < MaxRequests
        /\ GenerateStep(Len(gens) + 1,
                        GenerateEnter(rendered, rejectedOn, prompt, options))
        /\ UNCHANGED <<env, autoInitialize, batching, state, rendered, effectPending,
                       effs, inits, resets, calls, creates, sessions, reported,
                       progressLog, engineReports>>

\* engine.chat.completions.create settles
CompletionSettles ==
    \E j \in DOMAIN gens, c \in Completions :
        /\ ~MicrotaskQueued
        /\ gens[j].pc = "completing"
        /\ GenerateStep(j, GenerateSettled(gens[j], c))
        /\ UNCHANGED <<env, autoInitialize, batching, state, rendered, effectPending, effs, inits,
                       resets, calls, creates, sessions, reported, progressLog,
                       engineReports>>

\* a step of resetChat call k (Len(resets) + 1: a new call) to record r
ResetStep(k, r) ==
    /\ IF Returned(r)
       THEN /\ last' = [op |-> "resetChat", rec |-> r, before |-> state]
            /\ resets' = IF k \in DOMAIN resets THEN Remove(resets, k) ELSE resets
       ELSE /\ last' = NoCall
            /\ resets' = Append(resets, r)

\* a consumer calls resetChat() taken from the context value of the last render
CallResetChat ==
    /\ Len(resets) < MaxResetCalls
    /\ ResetStep(Len(resets) + 1, ResetEnter(rendered))
    /\ UNCHANGED <<env, autoInitialize, batching, state, rendered, effectPending, effs, inits,
                   gens, calls, creates, sessions, reported, rejectedOn, progressLog,
                   engineReports>>

\* engine.resetChat() settles
ResetSettles ==
    \E k \in DOMAIN resets, ok \in BOOLEAN :
        /\ ~MicrotaskQueued
        /\ resets[k].pc = "resetting"
        /\ ResetStep(k, ResetSettled(resets[k], ok))
        /\ UNCHANGED <<env, autoInitialize, batching, state, rendered, effectPending, effs, inits,
                       gens, calls, creates, sessions, reported, rejectedOn,
                       progressLog, engineReports>>

----------------------------------------------------------------------------
(* The lifecycle: initialize, the engine's creation events, render and effect *)

Next ==
    \/ CallInitialize
    \/ ResumeInitialize
    \/ EngineProgress
    \/ CreateResolves
    \/ CreateRejects
    \/ VendorResolves
    \/ VendorRejects
    \/ Render
    \/ RunEffect
    \/ ResumeEffect

Spec == Init /\ [][Next]_vars

(* The three operations together: the provider without autoInitialize (the   *)
(* default of the prop), under an engine that reports no progress            *)

NextCalls ==
    \/ CallInitialize
    \/ ResumeInitialize
    \/ CreateResolves
    \/ CreateRejects
    \/ VendorResolves
    \/ VendorRejects
    \/ Render
    \/ RunEffect
    \/ ResumeEffect
    \/ CallGenerate
    \/ CompletionSettles
    \/ CallResetChat
    \/ ResetSettles

InitCalls == Init /\ ~autoInitialize

SpecCalls == InitCalls /\ [][NextCalls]_vars

(* generate() with every prompt and options: the provider without            *)
(* autoInitialize in a host with WebGL, under React 18, with an engine whose  *)
(* creation and vendor query succeed                                          *)

NextRequests ==
    \/ CallInitialize
    \/ ResumeInitialize
    \/ CreateResolves
    \/ VendorResolves
    \/ Render
    \/ RunEffect
    \/ ResumeEffect
    \/ CallGenerateWith
    \/ CompletionSettles

(* The probe in every host: the effect, initialize() up to the call of        *)
(* CreateMLCEngine, and render                                                *)

NextProbe ==
    \/ CallInitialize
    \/ ResumeInitialize
    \/ Render
    \/ RunEffect
    \/ ResumeEffect

InitProbe == Mount(AllHosts)

SpecProbe == InitProbe /\ [][NextProbe]_vars

InitRequests ==
    Init /\ ~autoInitialize /\ batching /\ env = Host(TRUE, FALSE, TRUE, FALSE, FALSE)

SpecRequests == InitRequests /\ [][NextRequests]_vars
----------------------------------------------------------------------------
(* Properties *)

Running(seq, pc) == {i \in DOMAIN seq : seq[i].pc = pc}

ReturnedFrom(op) == last.op = op

\* the closure saw the manager Ready: initialized is true and an engine is stored
SawReady(cl) == cl.initialized /\ cl.engine # NoEngine

HostUnsupported == ~env.wasm \/ env.throws \/ (~env.webgl /\ ~env.webgpu)

\* C2: when the probe run by initialize() finds the host unsupported, the call
\* never calls CreateMLCEngine, and it returns false leaving InitProgress at
\* status error with progress 0.
UnsupportedFailsClosed ==
    /\ \A i \in DOMAIN inits :
           (inits[i].probed /\ HostUnsupported) =>
               inits[i].pc = "probeAwait" /\ inits[i].creates = 0
    /\ (ReturnedFrom("initialize") /\ last.rec.probed /\ HostUnsupported) =>
           /\ last.rec.ret = "false"
           /\ last.rec.creates = 0
           /\ state.initProgress.status = "error"
           /\ state.initProgress.progress = 0
           /\ state.engine = last.before.engine

\* initialize() returned after its probe found the host without WebAssembly
C2Witness ==
    /\ ReturnedFrom("initialize")
    /\ last.rec.probed
    /\ ~env.wasm
    /\ last.rec.ret = "false"
    /\ creates = 0

\* C3: a generate() call made while no engine is stored (or initialized is false)
\* returns status error with empty text at once, and is not forwarded to
\* engine.chat.completions.create.
NoSessionNoGenerate ==
    /\ \A j \in DOMAIN gens : SawReady(gens[j].cl)
    /\ (ReturnedFrom("generate") /\ ~SawReady(last.rec.cl)) =>
           /\ last.rec.resp.status = "error"
           /\ last.rec.resp.text = ""
           /\ last.rec.forwarded = 0
           /\ last.rec.settled = "none"

\* generate() returned the error while a creation was in flight
C3Witness ==
    /\ ReturnedFrom("generate")
    /\ ~SawReady(last.rec.cl)
    /\ last.rec.resp.status = "error"
    /\ Running(inits, "creating") # {}

Contains(text, piece) == \E n \in DOMAIN text : text[n] = piece

CreationRejected == ReturnedFrom("initialize") /\ last.rec.thrown # NoThrown

\* what a rejected creation leaves whatever was thrown: false is returned, status
\* is error, and the call stores no engine and does not set initialized
RejectedCreationLeaves ==
    /\ last.rec.ret = "false"
    /\ state.initProgress.status = "error"
    /\ state.engine = last.before.engine
    /\ state.initialized = last.before.initialized
    /\ last.rec.session = NoEngine

\* C4 as claimed: when CreateMLCEngine rejects, initialize() returns false, status
\* is error, the text contains the message of what the engine threw, and no
\* engine is stored by the call.
RejectedCreationShowsMessage ==
    CreationRejected =>
        /\ RejectedCreationLeaves
        /\ Contains(state.initProgress.text, last.rec.thrown.message)

\* C4 as amended: the text contains the thrown value's message when that value is
\* an Error, and "Unknown error" when it is anything else.
RejectedCreationShowsErrorMessage ==
    CreationRejected =>
        /\ RejectedCreationLeaves
        /\ last.rec.thrown.isError =>
               state.initProgress.text =
                   <<"Failed to initialize WebLLM: ", last.rec.thrown.message>>
        /\ ~last.rec.thrown.isError =>
               state.initProgress.text =
                   <<"Failed to initialize WebLLM: ", "Unknown error">>

\* the only creation of the run was rejected with Error("OOM")
C4Witness ==
    /\ CreationRejected
    /\ last.rec.thrown = [isError |-> TRUE, message |-> "OOM"]
    /\ Contains(state.initProgress.text, "OOM")
    /\ ~state.initialized
    /\ state.engine = NoEngine

\* the InitProgress value a report is shown as
Shown(report) ==
    [progress |-> report.progress, text |-> report.text, status |-> "initializing"]

ShownReports == [n \in DOMAIN engineReports |-> Shown(engineReports[n])]

FirstShown ==
    [progress |-> 0, text |-> <<"Initializing WebLLM...">>, status |-> "initializing"]

LastShown ==
    [progress |-> 10, text |-> <<"WebLLM initialized successfully">>,
     status |-> "success"]

\* C5: in a run with a single creation, the values given to InitProgress are
\* (0, initializing), first and with the call of CreateMLCEngine, then one value
\* (p, initializing) per report of the engine, in order, and, once the creation
\* has resolved, (1, success), with initialized true.
SingleAttemptProgressSequence ==
    /\ (creates = 1 /\ sessions = 0 /\ Running(inits, "creating") # {}) =>
           /\ progressLog = <<FirstShown>> \o ShownReports
           /\ state.initProgress = progressLog[Len(progressLog)]
           /\ ~state.initialized
    /\ (creates = 1 /\ sessions = 1) =>
           /\ progressLog = (<<FirstShown>> \o ShownReports) \o <<LastShown>>
           /\ state.initProgress = LastShown
           /\ state.initialized
           /\ state.engine # NoEngine

\* the engine reported 0.3, then 0.9, then resolved
C5Witness ==
    /\ creates = 1
    /\ sessions = 1
    /\ Len(engineReports) = 2
    /\ engineReports[1].progress = 3
    /\ engineReports[2].progress = 9
    /\ Len(progressLog) = 4

\* C6 as claimed: in a run with a single creation, InitProgress.progress does not
\* decrease from one value to the next while status stays initializing.
ProgressNeverDecreases ==
    [][(/\ creates' = 1
        /\ state.initProgress.status = "initializing"
        /\ state'.initProgress.status = "initializing")
           => state'.initProgress.progress >= state.initProgress.progress]_vars

\* C7 as claimed: at most one creation is in flight, no creation starts while an
\* engine is stored, and at most one engine is ever created.
AtMostOneCreation ==
    /\ Cardinality(Running(inits, "creating")) <= 1
    /\ \A i \in DOMAIN inits : ~inits[i].storedAtCreate
    /\ sessions <= 1

\* C8: no call of initialize(), generate() or resetChat() ends by throwing: a
\* rejected creation ends in false and status error, a failed vendor query in
\* true, a rejected or malformed completion in a status error response, a failed
\* reset in a plain return.
NeverThrows ==
    /\ \A i \in DOMAIN inits : inits[i].ret = "none"
    /\ \A j \in DOMAIN gens : gens[j].ret = "none"
    /\ \A k \in DOMAIN resets : resets[k].ret = "none"
    /\ ReturnedFrom("initialize") =>
           /\ last.rec.ret \in {"true", "false"}
           /\ last.rec.thrown # NoThrown =>
                  last.rec.ret = "false" /\ state.initProgress.status = "error"
           /\ (last.rec.probed /\ HostUnsupported) =>
                  last.rec.ret = "false" /\ state.initProgress.status = "error"
           /\ last.rec.vendorFailed => last.rec.ret = "true"
    /\ ReturnedFrom("generate") =>
           /\ last.rec.ret = "returned"
           /\ last.rec.resp.status \in {"success", "error"}
           /\ last.rec.settled \in {"rejected", "noChoices"} =>
                  last.rec.resp.status = "error"
    /\ ReturnedFrom("resetChat") => last.rec.ret = "returned"

\* generate() returned an error response for a completion without choices
C8Witness ==
    /\ ReturnedFrom("generate")
    /\ last.rec.settled = "noChoices"
    /\ last.rec.ret = "returned"
    /\ last.rec.resp.status = "error"

\* C9: no step of a resetChat() call changes a cell; the call invokes
\* engine.resetChat() exactly when its closure holds an engine, and returns
\* normally also when that reset failed.
ResetChatIsSilent ==
    /\ [][resets' # resets => (state' = state /\ rendered' = rendered)]_vars
    /\ [](\A k \in DOMAIN resets :
              /\ resets[k].cl.engine # NoEngine
              /\ resets[k].resetCalls = 1)
    /\ [](ReturnedFrom("resetChat") =>
              /\ last.rec.ret = "returned"
              /\ state = last.before
              /\ last.rec.resetCalls = 1 <=> last.rec.cl.engine # NoEngine
              /\ last.rec.resetCalls \in {0, 1}
              /\ last.rec.failed => last.rec.resetCalls = 1)

\* resetChat() returned after engine.resetChat() had rejected, the manager Ready
C9Witness ==
    /\ ReturnedFrom("resetChat")
    /\ last.rec.failed
    /\ last.rec.resetCalls = 1
    /\ state.initProgress.status = "success"
    /\ state.engine = last.rec.session

\* C10: when engine.chat.completions.create rejects, generate() returns status
\* error with empty text and a message, and no cell changes; a generate() call
\* made afterwards, with that engine still stored, is forwarded to it.
RejectedCompletionKeepsSession ==
    /\ (ReturnedFrom("generate") /\ last.rec.settled = "rejected") =>
           /\ last.rec.resp.status = "error"
           /\ last.rec.resp.text = ""
           /\ last.rec.resp.error \notin {NoError, ""}
           /\ state = last.before
           /\ rejectedOn = last.rec.session
    /\ \A j \in DOMAIN gens :
           (gens[j].after # NoEngine /\ gens[j].cl.engine = gens[j].after) =>
               gens[j].forwarded = 1 /\ gens[j].session = gens[j].after
    /\ (/\ ReturnedFrom("generate")
        /\ last.rec.after # NoEngine
        /\ last.rec.cl.engine = last.rec.after) =>
           last.rec.forwarded = 1 /\ last.rec.session = last.rec.after

\* a generate() call made after a rejected completion succeeded on the same engine
C10Witness ==
    /\ ReturnedFrom("generate")
    /\ last.rec.after # NoEngine
    /\ last.rec.session = last.rec.after
    /\ last.rec.forwarded = 1
    /\ last.rec.resp.status = "success"

\* the request a generate(prompt, options) call is to forward
Forwards(g) ==
    /\ g.forwarded = 1
    /\ Len(g.request.messages) = 2
    /\ g.request.messages[1] =
           [role |-> "system", content |-> "You are a helpful AI assistant."]
    /\ g.request.messages[2] = [role |-> "user", content |-> g.prompt]
    /\ g.request.temperature =
           (IF g.options.temperature = <<>> THEN <<7>> ELSE g.options.temperature)
    /\ g.request.max_tokens = g.options.max_tokens
    /\ g.request.top_p = g.options.top_p
    /\ g.request.stop = g.options.stop

\* C11: every generate(prompt, options) call made when Ready forwards exactly two
\* messages, the fixed system message and a user message with the prompt, with
\* the caller's temperature when given (0 included) and 0.7 otherwise, and with
\* the caller's max_tokens, top_p and stop or none; this holds of each call
\* whatever calls were made before it or are running beside it.
ForwardedRequest ==
    /\ \A j \in DOMAIN gens : Forwards(gens[j])
    /\ (ReturnedFrom("generate") /\ SawReady(last.rec.cl)) => Forwards(last.rec)

\* generate("", {temperature: 0}) returned a completion after forwarding
\* temperature 0 and no max_tokens, an earlier call having been rejected
C11Witness ==
    /\ ReturnedFrom("generate")
    /\ last.rec.after # NoEngine
    /\ last.rec.prompt = ""
    /\ last.rec.options.temperature = <<0>>
    /\ last.rec.request.temperature = <<0>>
    /\ last.rec.request.max_tokens = <<>>
    /\ last.rec.resp.status = "success"

\* the only creation of the run was rejected after the engine had reported progress
RejectedAfterReports ==
    CreationRejected /\ creates = 1 /\ engineReports # <<>>

\* C12 as claimed: when CreateMLCEngine rejects after the engine reported progress
\* p, InitProgress.progress is still p after the failure, with status error.
RejectedCreationKeepsProgress ==
    RejectedAfterReports =>
        /\ state.initProgress.status = "error"
        /\ state.initProgress.progress = engineReports[Len(engineReports)].progress

\* C12 as amended: after the failure of any creation InitProgress.progress is 0,
\* whatever the engine reported last, with status error.
RejectedCreationResetsProgress ==
    CreationRejected =>
        /\ state.initProgress.status = "error"
        /\ state.initProgress.progress = 0

\* the creation was rejected after a last report of 0.9
C12Witness ==
    /\ RejectedAfterReports
    /\ engineReports[Len(engineReports)].progress = 9
    /\ last.before.initProgress.progress = 9
    /\ state.initProgress.progress = 0

\* C13 as claimed: InitProgress.status moves only from not-started to
\* initializing or error, from initializing to initializing, success or error,
\* and from error to initializing or error; once it is success no step changes
\* InitProgress.
StatusTransitions ==
    [][/\ state.initProgress.status = "not-started" =>
              state'.initProgress.status \in {"not-started", "initializing", "error"}
       /\ state.initProgress.status = "initializing" =>
              state'.initProgress.status \in {"initializing", "success", "error"}
       /\ state.initProgress.status = "error" =>
              state'.initProgress.status \in {"initializing", "error"}
       /\ state.initProgress.status = "success" =>
              state'.initProgress = state.initProgress]_vars

\* initialize() is called in this step: by a consumer, or by the effect resuming
InitializeCalled ==
    \/ calls' = calls + 1
    \/ /\ Len(effs') < Len(effs)
       /\ Len(inits') > Len(inits) \/ last'.op = "initialize"

CreationsResolved == {i \in DOMAIN inits : inits[i].pc = "vendorAwait"}

\* C14 as claimed: an initialize() call made after a failed attempt (status error,
\* supported host) sets status to initializing with progress 0 and calls
\* CreateMLCEngine again, at once or after its probe; when a creation resolves,
\* initialized is true and status is success, and its call returns true.
RetryAfterFailure ==
    /\ [][(/\ InitializeCalled
            /\ state.initProgress.status = "error"
            /\ ~HostUnsupported) =>
              /\ Len(inits') = Len(inits) + 1
              /\ \/ inits'[Len(inits')].pc = "probeAwait"
                 \/ /\ inits'[Len(inits')].pc = "creating"
                    /\ creates' = creates + 1
                    /\ state'.initProgress = FirstShown]_vars
    /\ [][(/\ ~HostUnsupported
            /\ \E i \in DOMAIN inits : inits[i].pc = "probeAwait" /\ inits'[i] # inits[i]) =>
              /\ creates' = creates + 1
              /\ state'.initProgress = FirstShown]_vars
    /\ [][Cardinality(CreationsResolved') > Cardinality(CreationsResolved) =>
              state'.initialized /\ state'.initProgress = LastShown]_vars
    /\ []((ReturnedFrom("initialize") /\ last.rec.session # NoEngine) =>
              last.rec.ret = "true")

\* C15 as claimed: when the creation resolved and getGPUVendor failed, the call
\* returns true with initialized true, status success and progress 1, an engine
\* stored, and systemInfo.gpuVendor as it was.
VendorFailureStillReady ==
    (ReturnedFrom("initialize") /\ last.rec.vendorFailed) =>
        /\ last.rec.ret = "true"
        /\ state.initialized
        /\ state.engine # NoEngine
        /\ state.initProgress.status = "success"
        /\ state.initProgress.progress = 10
        /\ state.systemInfo.gpuVendor = last.before.systemInfo.gpuVendor

\* C16: systemInfo.gpuVendor is non-null only if CreateMLCEngine has resolved
\* with an engine at least once.
VendorOnlyAfterSession ==
    state.systemInfo.gpuVendor # "null" => sessions >= 1

\* the vendor query of the only engine created resolved
C16Witness ==
    /\ state.systemInfo.gpuVendor = "nvidia"
    /\ sessions = 1
    /\ state.engine # NoEngine

\* C17 as claimed: once a vendor query has resolved with a vendor string,
\* systemInfo.gpuVendor is that string in every later state.
VendorIsKept ==
    [][state.systemInfo.gpuVendor # "null" =>
           state'.systemInfo.gpuVendor = state.systemInfo.gpuVendor]_vars

\* WebAssembly is there, probing does not throw, and navigator.gpu or a WebGL
\* context is there
HostSupported == env.wasm /\ ~env.throws /\ (env.webgpu \/ env.webgl)

\* a probe has just run: its caller is suspended at the await, or has resumed
JustProbed == effs # <<>> \/ \E i \in DOMAIN inits : inits[i].probed

\* C18: in every host, after a probe the supported cell is (WebAssembly present)
\* and (navigator.gpu present or a WebGL context present), false when probing
\* throws and whatever SharedArrayBuffer is; the probe resolves with the same
\* value; supported and systemInfo.supported are always equal.
ProbeVerdictInEveryHost ==
    /\ state.supported = state.systemInfo.supported
    /\ JustProbed => state.supported = HostSupported
    /\ \A i \in DOMAIN inits :
           inits[i].probed => inits[i].isSupported = HostSupported
    /\ (ReturnedFrom("initialize") /\ last.rec.probed) =>
           /\ last.rec.isSupported = HostSupported
           /\ state.supported = HostSupported

\* the effect has probed a host with navigator.gpu, without WebGL and without
\* SharedArrayBuffer, and found it supported
C18Witness ==
    /\ effs # <<>>
    /\ env = Host(TRUE, TRUE, FALSE, FALSE, FALSE)
    /\ state.supported
    /\ state.systemInfo.supported
    /\ state.systemInfo.webGPUAvailable

\* C19: when initialize() returns true, initialized is true and an engine is
\* stored; and once that is so it stays so, in the cells and in what is
\* rendered, whatever step follows (another initialize() failing included).
ReadyIsKept ==
    /\ []((ReturnedFrom("initialize") /\ last.rec.ret = "true") =>
              state.initialized /\ state.engine # NoEngine)
    /\ [][(state.initialized /\ state.engine # NoEngine) =>
              (state'.initialized /\ state'.engine # NoEngine)]_vars
    /\ [][(rendered.initialized /\ rendered.engine # NoEngine) =>
              (rendered'.initialized /\ rendered'.engine # NoEngine)]_vars

\* a creation was rejected after another call had returned true with its vendor
C19Witness ==
    /\ CreationRejected
    /\ state.systemInfo.gpuVendor # "null"
    /\ last.before.initialized
    /\ state.initialized
    /\ state.engine # NoEngine

\* nothing of the provider is left to run: no effect scheduled or suspended, no
\* initialize() running, every update rendered
AtRest ==
    /\ ~effectPending
    /\ effs = <<>>
    /\ inits = <<>>
    /\ rendered = Closure(state)

\* C20 as claimed: while no consumer has called initialize(), the mount effect
\* calls CreateMLCEngine at most once, never when autoInitialize is false or the
\* host is unsupported, and, when autoInitialize is true and the host supported,
\* exactly once by the time the provider is at rest, whether the creation
\* resolved or rejected.
EffectCreatesOnce ==
    calls = 0 =>
        /\ creates <= 1
        /\ (~autoInitialize \/ HostUnsupported) => creates = 0
        /\ (AtRest /\ autoInitialize /\ ~HostUnsupported) => creates = 1
====
